---- MODULE Spec2Model ----
(***************************************************************************)
(* Model of server/src/server.ts: the language-server bridge between an    *)
(* editor client and the external ash_lang_cli compiler.                   *)
(*                                                                         *)
(* Strings are sequences of one-character strings.  The external compiler  *)
(* and the client are the environment: the compiler's captured output and  *)
(* the client's configuration answers are drawn from bounded sets.         *)
(***************************************************************************)
EXTENDS Integers, Sequences, FiniteSets, TLC

(***************************************************************************)
(* Bounds of the model.                                                    *)
(***************************************************************************)
MaxFrags == 3        \* fragments per captured output in SpecParse
MaxTasks == 2        \* handlers in flight at the same time

(***************************************************************************)
(* JavaScript string primitives used by the server.                        *)
(***************************************************************************)
Digits == <<"0", "1", "2", "3", "4", "5", "6", "7", "8", "9">>

IsDigit(c) == \E i \in 1..Len(Digits) : Digits[i] = c

DigitVal(c) == (CHOOSE i \in 1..Len(Digits) : Digits[i] = c) - 1

\* String.prototype.trim strips white space and line terminators.
IsWhiteSpace(c) == c \in {" ", "\t", "\n", "\r"}

RECURSIVE TrimStart(_)
TrimStart(s) ==
  IF s # <<>> /\ IsWhiteSpace(Head(s)) THEN TrimStart(Tail(s)) ELSE s

RECURSIVE TrimEnd(_)
TrimEnd(s) ==
  IF s # <<>> /\ IsWhiteSpace(s[Len(s)])
  THEN TrimEnd(SubSeq(s, 1, Len(s) - 1))
  ELSE s

trim(s) == TrimEnd(TrimStart(s))

\* String.prototype.slice(0, end): a negative end counts from the end of the
\* string, and the result is empty when the end is not after the start.
slice0(s, end) ==
  LET to == IF end < 0
            THEN (IF Len(s) + end < 0 THEN 0 ELSE Len(s) + end)
            ELSE (IF end > Len(s) THEN Len(s) ELSE end)
  IN SubSeq(s, 1, to)

\* String.prototype.split(sep) for a one-character separator: the segments
\* between the separators, in order (always at least one segment).
RECURSIVE SplitFrom(_, _, _)
SplitFrom(s, sep, cur) ==
  IF s = <<>> THEN <<cur>>
  ELSE IF Head(s) = sep THEN <<cur>> \o SplitFrom(Tail(s), sep, <<>>)
  ELSE SplitFrom(Tail(s), sep, Append(cur, Head(s)))

split(s, sep) == SplitFrom(s, sep, <<>>)

\* parseInt on a string that starts with decimal digits: the value of the
\* leading digit run (NaN, modelled as the string "NaN", when there is none).
RECURSIVE ParseDigits(_, _)
ParseDigits(s, acc) ==
  IF s # <<>> /\ IsDigit(Head(s))
  THEN ParseDigits(Tail(s), 10 * acc + DigitVal(Head(s)))
  ELSE acc

parseInt(s) ==
  IF s # <<>> /\ IsDigit(Head(s)) THEN ParseDigits(s, 0) ELSE "NaN"

(***************************************************************************)
(* The regular expression /\[\d+:\d+\]/g of getRange.                      *)
(***************************************************************************)
\* Index just after the maximal digit run that starts at i.
RECURSIVE SkipDigits(_, _)
SkipDigits(s, i) ==
  IF i <= Len(s) /\ IsDigit(s[i]) THEN SkipDigits(s, i + 1) ELSE i

\* TokenEnd with a pattern that forgets the closing bracket: \[\d+:\d+
TokenEnd_noClose(s, i) ==
  IF i > Len(s) \/ s[i] # "[" THEN 0
  ELSE LET j == SkipDigits(s, i + 1)
       IN IF j = i + 1 \/ j > Len(s) \/ s[j] # ":" THEN 0
          ELSE LET k == SkipDigits(s, j + 1)
               IN IF k = j + 1 THEN 0 ELSE k

\* Index just after a match of \[\d+:\d+\] that starts at i, or 0 if there is
\* none.  \d+ is greedy and the character after it is never a digit, so the
\* maximal run is the only candidate.
TokenEnd(s, i) ==
  IF i > Len(s) \/ s[i] # "[" THEN 0
  ELSE LET j == SkipDigits(s, i + 1)
       IN IF j = i + 1 \/ j > Len(s) \/ s[j] # ":" THEN 0
          ELSE LET k == SkipDigits(s, j + 1)
               IN IF k = j + 1 \/ k > Len(s) \/ s[k] # "]" THEN 0
                  ELSE k + 1

\* String.prototype.match with the g flag: all leftmost non-overlapping
\* matches, in order (the empty sequence stands for the null result).
RECURSIVE MatchFrom(_, _)
MatchFrom(s, i) ==
  IF i > Len(s) THEN <<>>
  ELSE LET e == TokenEnd(s, i)
       IN IF e = 0 THEN MatchFrom(s, i + 1)
          ELSE <<SubSeq(s, i, e - 1)>> \o MatchFrom(s, e)

matchTokens(s) == MatchFrom(s, 1)

\* e.replace(/[[\]]/g, ""): every bracket removed.
RECURSIVE stripBrackets(_)
stripBrackets(s) ==
  IF s = <<>> THEN <<>>
  ELSE IF Head(s) \in {"[", "]"} THEN stripBrackets(Tail(s))
  ELSE <<Head(s)>> \o stripBrackets(Tail(s))

(***************************************************************************)
(* getRange (server.ts 94-118) and the two output interpreters.            *)
(***************************************************************************)
Position(l, c) == [line |-> l, character |-> c]

\* TokenPosition that keeps the compiler's 1-based numbers.
TokenPosition_oneBased(e) ==
  Position(parseInt(split(e, ":")[1]), parseInt(split(e, ":")[2]))

\* The position named by a token whose brackets were removed.
TokenPosition(e) ==
  Position(parseInt(split(e, ":")[1]) - 1, parseInt(split(e, ":")[2]) - 1)

\* getRange that puts the two positions in document order.
getRange_ordered(stdout) ==
  LET m == matchTokens(stdout)
      se == [i \in 1..Len(m) |-> stripBrackets(m[i])]
      start0 == Position(0, 0)
      Precedes(a, b) ==
        a.line < b.line \/ (a.line = b.line /\ a.character <= b.character)
  IN IF se = <<>> THEN <<start0, start0>>
     ELSE LET start == TokenPosition(se[1])
          IN IF Len(se) = 2
             THEN LET end == TokenPosition(se[2])
                  IN IF Precedes(start, end) THEN <<start, end>>
                     ELSE <<end, start>>
             ELSE <<start, start>>

\* getRange that takes the second token as the end whenever there is one.
getRange_atLeastTwo(stdout) ==
  LET m == matchTokens(stdout)
      se == [i \in 1..Len(m) |-> stripBrackets(m[i])]
      start0 == Position(0, 0)
  IN IF se = <<>> THEN <<start0, start0>>
     ELSE LET start == TokenPosition(se[1])
          IN IF Len(se) >= 2 THEN <<start, TokenPosition(se[2])>>
             ELSE <<start, start>>

getRange(stdout) ==
  LET m == matchTokens(stdout)
      se == [i \in 1..Len(m) |-> stripBrackets(m[i])]
      start0 == Position(0, 0)
  IN IF se = <<>> THEN <<start0, start0>>
     ELSE LET start == TokenPosition(se[1])
          IN IF Len(se) = 2 THEN <<start, TokenPosition(se[2])>>
             ELSE <<start, start>>

MakeDiagnostic(range, message) ==
  [severity |-> "Error",
   range |-> [start |-> range[1], end |-> range[2]],
   message |-> message,
   source |-> "ashlang"]

\* Diagnostics that tests the output for emptiness without trimming it.
Diagnostics_untrimmed(stdout) ==
  IF stdout # <<>>
  THEN LET parts == split(stdout, ":")
       IN << MakeDiagnostic(getRange(stdout), parts[Len(parts)]) >>
  ELSE <<>>

\* Diagnostics that reports every colon-separated part of the output.
Diagnostics_perPart(stdout) ==
  IF trim(stdout) # <<>>
  THEN LET parts == split(stdout, ":")
       IN [i \in 1..Len(parts) |-> MakeDiagnostic(getRange(stdout), parts[i])]
  ELSE <<>>

\* Diagnostics that takes the first part of the output as the message.
Diagnostics_firstPart(stdout) ==
  IF trim(stdout) # <<>>
  THEN LET parts == split(stdout, ":")
       IN << MakeDiagnostic(getRange(stdout), parts[1]) >>
  ELSE <<>>

\* The diagnostics array validateTextDocument builds from the analysis output.
Diagnostics(stdout) ==
  IF trim(stdout) # <<>>
  THEN LET parts == split(stdout, ":")
           range == getRange(stdout)
       IN << MakeDiagnostic(range, parts[Len(parts)]) >>
  ELSE <<>>

\* TextDocument.lineCount: one more than the number of line breaks.
RECURSIVE lineCount(_)
lineCount(text) ==
  IF text = <<>> THEN 1
  ELSE IF Head(text) = "\r" /\ Len(text) > 1 /\ text[2] = "\n"
  THEN lineCount(Tail(text))
  ELSE IF Head(text) \in {"\n", "\r"} THEN 1 + lineCount(Tail(text))
  ELSE lineCount(Tail(text))

\* Edits that ends the range on the last line instead of after it.
Edits_lastLine(formatted, lines) ==
  IF trim(formatted) # <<>>
  THEN << [range |-> [start |-> Position(0, 0),
                      end |-> Position(lines - 1, 0)],
           newText |-> formatted] >>
  ELSE <<>>

\* The edit list onDocumentFormatting returns once the formatter has run.
Edits(formatted, lines) ==
  IF trim(formatted) # <<>>
  THEN << [range |-> [start |-> Position(0, 0), end |-> Position(lines, 0)],
           newText |-> formatted] >>
  ELSE <<>>

\* What exec hands to runCompiler: output.stdout when the promise resolves,
\* e.stderr when it rejects (non-zero exit, or killed at the timeout).
Captured(res) == IF res.how = "success" THEN res.stdout ELSE res.stderr

\* runCompiler that strips a trailing line end only when there is one.
runCompilerResult_trimEnd(res) ==
  LET c == IF res.how = "success" THEN res.stdout ELSE res.stderr
  IN IF Len(c) >= 2 /\ SubSeq(c, Len(c) - 1, Len(c)) = <<"\r", "\n">>
     THEN SubSeq(c, 1, Len(c) - 2)
     ELSE c

\* The string runCompiler returns.
runCompilerResult(res) == slice0(Captured(res), Len(Captured(res)) - 2)

(***************************************************************************)
(* The environment's values.                                               *)
(***************************************************************************)
URIs == {"u1", "u2"}

\* Document contents the client sends: empty, blank, one line, two lines.
Texts == { <<>>, <<" ">>, <<"a">>, <<"a", "\n", "b">> }

defaultSettings ==
  [maxNumberOfProblems |-> 1000,
   executablePath |-> "ash_lang_cli",
   maxCompilerInvocationTime |-> 5000]

\* A configuration the user has set in the editor.
userSettings ==
  [maxNumberOfProblems |-> 0,
   executablePath |-> "ash_dev",
   maxCompilerInvocationTime |-> 100]

SettingsValues == {defaultSettings, userSettings}

\* Answers of the client to a workspace/configuration request: a settings
\* object, null (the section is not configured), or an error response.
ConfigAnswers == {"object", "null", "rejected"}

\* One promise per getDocumentSettings result that is still referenced by
\* the cache or by a handler awaiting it.
PromiseIds == 1..(Cardinality(URIs) + MaxTasks)

PendingPromise == [state |-> "pending", value |-> defaultSettings]

VARIABLES
  initialized,                \* the initialize request has been handled
  hasConfigurationCapability, \* server.ts 37
  globalSettings,             \* server.ts 164
  documentSettings,           \* server.ts 167: uri -> promise id, 0 = no entry
  promises,                   \* promise id -> [state, value]
  documents,                  \* server.ts 35: uris of the open documents, in
                              \* the order they were opened
  content,                    \* uri -> text of the open TextDocument object
  tmpFile,                    \* server.ts 29: content of the temp file
  tasks,                      \* handlers in flight, in the order they started
  published,                  \* uri -> last publishDiagnostics sent
  last                        \* what the step just taken handed to the
                              \* compiler or to the connection

vars == <<initialized, hasConfigurationCapability, globalSettings,
          documentSettings, promises, documents, content, tmpFile, tasks,
          published, last>>

IsOpen(uri) == \E i \in 1..Len(documents) : documents[i] = uri

RemoveAt(seq, i) == SubSeq(seq, 1, i - 1) \o SubSeq(seq, i + 1, Len(seq))

NotSent == [sent |-> FALSE, diagnostics |-> <<>>]

\* Nothing was spawned, published or returned by the step.
NoLast ==
  [kind |-> "none", uri |-> "u1", outcome |-> "none",
   settings |-> defaultSettings, wrote |-> FALSE, text |-> <<>>,
   read |-> FALSE, input |-> <<>>,
   how |-> "success", stdout |-> <<>>, stderr |-> <<>>, result |-> <<>>,
   diagnostics |-> <<>>, edits |-> <<>>, doc |-> <<>>, before |-> NotSent]

Init ==
  /\ initialized = FALSE
  /\ hasConfigurationCapability = FALSE
  /\ globalSettings = defaultSettings
  /\ documentSettings = [u \in URIs |-> 0]
  /\ promises = [p \in PromiseIds |-> PendingPromise]
  /\ documents = <<>>
  /\ content = [u \in URIs |-> <<>>]
  /\ tmpFile = <<>>
  /\ tasks = <<>>
  /\ published = [u \in URIs |-> NotSent]
  /\ last = NoLast

(***************************************************************************)
(* Handlers in flight.  A handler is suspended either on the settings      *)
(* promise (pc = "settings") or on the compiler process (pc = "exec").     *)
(***************************************************************************)
\* Promises still referenced by the cache or by a suspended handler.
LivePromises(ts, cache) ==
  ({cache[u] : u \in URIs}
     \cup {ts[i].promise : i \in {j \in 1..Len(ts) : ts[j].pc = "settings"}})
  \ {0}

FreshPromise(ts, cache) ==
  CHOOSE p \in PromiseIds :
    /\ p \notin LivePromises(ts, cache)
    /\ \A q \in PromiseIds : q \notin LivePromises(ts, cache) => p <= q

\* Promises nobody references any more are forgotten.
Collect(ps, ts, cache) ==
  [p \in PromiseIds |->
     IF p \in LivePromises(ts, cache) THEN ps[p] ELSE PendingPromise]

\* StartTask that hands out the default settings, whatever the global
\* settings are, to a client without the configuration capability.
StartTask_defaults(st, kind, uri, docRef) ==
  LET cached == st.documentSettings[uri]
      hit == hasConfigurationCapability /\ cached # 0
      p == IF hit THEN cached
           ELSE FreshPromise(st.tasks, st.documentSettings)
      t == [kind |-> kind, uri |-> uri, docRef |-> docRef, doc |-> <<>>,
            pc |-> "settings", promise |-> p,
            settings |-> defaultSettings, text |-> <<>>,
            proc |-> "none", input |-> <<>>]
  IN [tasks |-> Append(st.tasks, t),
      documentSettings |->
        IF hasConfigurationCapability
        THEN [st.documentSettings EXCEPT ![uri] = p]
        ELSE st.documentSettings,
      promises |->
        IF hit THEN st.promises
        ELSE IF hasConfigurationCapability
        THEN [st.promises EXCEPT ![p] = PendingPromise]
        ELSE [st.promises EXCEPT
                ![p] = [state |-> "object", value |-> defaultSettings]],
      globalSettings |-> st.globalSettings]

\* getDocumentSettings (server.ts 183-196), called by a handler that starts:
\* st holds the tasks, the cache, the promises and the global settings; the
\* new handler is suspended on the promise the function returns.
StartTask(st, kind, uri, docRef) ==
  LET cached == st.documentSettings[uri]
      hit == hasConfigurationCapability /\ cached # 0
      p == IF hit THEN cached
           ELSE FreshPromise(st.tasks, st.documentSettings)
      t == [kind |-> kind, uri |-> uri, docRef |-> docRef, doc |-> <<>>,
            pc |-> "settings", promise |-> p,
            settings |-> defaultSettings, text |-> <<>>,
            proc |-> "none", input |-> <<>>]
  IN [tasks |-> Append(st.tasks, t),
      documentSettings |->
        IF hasConfigurationCapability
        THEN [st.documentSettings EXCEPT ![uri] = p]
        ELSE st.documentSettings,
      promises |->
        IF hit THEN st.promises
        ELSE IF hasConfigurationCapability
        THEN [st.promises EXCEPT ![p] = PendingPromise]
        ELSE [st.promises EXCEPT
                ![p] = [state |-> "object", value |-> st.globalSettings]],
      globalSettings |-> st.globalSettings]

Now ==
  [tasks |-> tasks, documentSettings |-> documentSettings,
   promises |-> promises, globalSettings |-> globalSettings]

\* documents.all().forEach(validateTextDocument)
RECURSIVE StartValidations(_, _)
StartValidations(st, uris) ==
  IF uris = <<>> THEN st
  ELSE StartValidations(StartTask(st, "validate", Head(uris), "live"),
                        Tail(uris))

Install(st) ==
  /\ tasks' = st.tasks
  /\ documentSettings' = st.documentSettings
  /\ promises' = Collect(st.promises, st.tasks, st.documentSettings)
  /\ globalSettings' = st.globalSettings

\* A handler whose settings promise is settled resumes in a microtask, before
\* the event loop takes the next message or process exit.
Ready(t) == t.pc = "settings" /\ promises[t.promise].state # "pending"

MicrotaskPending == \E i \in 1..Len(tasks) : Ready(tasks[i])

\* The text of the TextDocument object a handler holds.
DocText(t) == IF t.docRef = "live" THEN content[t.uri] ELSE t.doc

(***************************************************************************)
(* Messages from the client.                                               *)
(***************************************************************************)
\* connection.onInitialize (server.ts 41-77)
Initialize(cap) ==
  /\ ~initialized
  /\ initialized' = TRUE
  /\ hasConfigurationCapability' = cap
  /\ last' = NoLast
  /\ UNCHANGED <<globalSettings, documentSettings, promises, documents,
                 content, tmpFile, tasks, published>>

\* textDocument/didOpen: the manager creates the document and fires
\* onDidChangeContent (server.ts 205-207).
DidOpen(uri, text) ==
  /\ initialized /\ ~MicrotaskPending
  /\ ~IsOpen(uri)
  /\ Len(tasks) < MaxTasks
  /\ documents' = Append(documents, uri)
  /\ content' = [content EXCEPT ![uri] = text]
  /\ Install(StartTask(Now, "validate", uri, "live"))
  /\ last' = NoLast
  /\ UNCHANGED <<initialized, hasConfigurationCapability, tmpFile, published>>

\* textDocument/didChange: the manager updates the document object in place
\* and fires onDidChangeContent (server.ts 205-207).
DidChange(uri, text) ==
  /\ initialized /\ ~MicrotaskPending
  /\ IsOpen(uri)
  /\ Len(tasks) < MaxTasks
  /\ content' = [content EXCEPT ![uri] = text]
  /\ Install(StartTask(Now, "validate", uri, "live"))
  /\ last' = NoLast
  /\ UNCHANGED <<initialized, hasConfigurationCapability, documents, tmpFile,
                 published>>

\* textDocument/didClose: documents.onDidClose (server.ts 199-201).  Handlers
\* in flight keep the document object, whose text no longer changes.
DidClose(uri) ==
  /\ initialized /\ ~MicrotaskPending
  /\ IsOpen(uri)
  /\ documents' = SelectSeq(documents, LAMBDA u : u # uri)
  /\ content' = [content EXCEPT ![uri] = <<>>]
  /\ LET ts == [i \in 1..Len(tasks) |->
                  IF tasks[i].uri = uri /\ tasks[i].docRef = "live"
                  THEN [tasks[i] EXCEPT !.docRef = "detached",
                                        !.doc = content[uri]]
                  ELSE tasks[i]]
     IN Install([Now EXCEPT !.tasks = ts, !.documentSettings[uri] = 0])
  /\ last' = NoLast
  /\ UNCHANGED <<initialized, hasConfigurationCapability, tmpFile, published>>

\* DidChangeConfiguration that revalidates without clearing the cache.
DidChangeConfiguration_noClear(present, settings) ==
  /\ initialized /\ ~MicrotaskPending
  /\ ~present => settings = defaultSettings
  /\ Len(tasks) + Len(documents) <= MaxTasks
  /\ LET st == IF hasConfigurationCapability
               THEN Now
               ELSE [Now EXCEPT !.globalSettings =
                       IF present THEN settings ELSE defaultSettings]
     IN Install(StartValidations(st, documents))
  /\ last' = [NoLast EXCEPT !.kind = "configuration"]
  /\ UNCHANGED <<initialized, hasConfigurationCapability, documents, content,
                 tmpFile, published>>

\* connection.onDidChangeConfiguration (server.ts 169-181).  present tells
\* whether change.settings.languageServerExample is set.  The step is
\* recorded in last as one of kind "configuration".
DidChangeConfiguration(present, settings) ==
  /\ initialized /\ ~MicrotaskPending
  /\ ~present => settings = defaultSettings
  /\ Len(tasks) + Len(documents) <= MaxTasks
  /\ LET st == IF hasConfigurationCapability
               THEN [Now EXCEPT !.documentSettings = [u \in URIs |-> 0]]
               ELSE [Now EXCEPT !.globalSettings =
                       IF present THEN settings ELSE defaultSettings]
     IN Install(StartValidations(st, documents))
  /\ last' = [NoLast EXCEPT !.kind = "configuration"]
  /\ UNCHANGED <<initialized, hasConfigurationCapability, documents, content,
                 tmpFile, published>>

\* connection.onDocumentFormatting (server.ts 242-245), up to the first await.
DocumentFormatting(uri) ==
  /\ initialized /\ ~MicrotaskPending
  /\ Len(tasks) < MaxTasks
  /\ Install(StartTask(Now, "format", uri,
                       IF IsOpen(uri) THEN "live" ELSE "undefined"))
  /\ last' = NoLast
  /\ UNCHANGED <<initialized, hasConfigurationCapability, documents, content,
                 tmpFile, published>>

\* The client answers a workspace/configuration request (server.ts 189-192).
ConfigResponse(p, answer, value) ==
  /\ initialized /\ ~MicrotaskPending
  /\ p \in LivePromises(tasks, documentSettings)
  /\ promises[p].state = "pending"
  /\ answer # "object" => value = defaultSettings
  /\ promises' = [promises EXCEPT ![p] = [state |-> answer, value |-> value]]
  /\ last' = NoLast
  /\ UNCHANGED <<initialized, hasConfigurationCapability, globalSettings,
                 documentSettings, documents, content, tmpFile, tasks,
                 published>>

(***************************************************************************)
(* Continuations of the handlers.                                          *)
(***************************************************************************)
\* SkipsCompiler that tests the text for emptiness without trimming it.
SkipsCompiler_untrimmed(t, text) ==
  t.kind = "format" /\ (t.docRef = "undefined" \/ text = <<>>)

\* onDocumentFormatting returns [] without running the formatter when the
\* document is not open or its text is blank (server.ts 247-249).
SkipsCompiler(t, text) ==
  t.kind = "format" /\ (t.docRef = "undefined" \/ trim(text) = <<>>)

Outcome(t, outcome) ==
  [NoLast EXCEPT !.kind = t.kind, !.uri = t.uri, !.outcome = outcome]

\* writeFileSync whose write reaches the file only after the step that
\* spawns the compiler, as an asynchronous fs.writeFile would.
writeFileSync_async(file, text, writeOk) == file

\* fs.writeFileSync in the try of runCompiler (server.ts 125-129): the file
\* holds the text after a write that succeeds, and what it held before
\* after one that fails.
writeFileSync(file, text, writeOk) == IF writeOk THEN text ELSE file

\* Resume with a runCompiler that lets the error of a failed write escape:
\* the handler ends there, without spawning the compiler.
Resume_writeThrows(writeOk) ==
  /\ MicrotaskPending
  /\ LET i == CHOOSE j \in 1..Len(tasks) :
                /\ Ready(tasks[j])
                /\ \A k \in 1..(j - 1) : ~Ready(tasks[k])
         t == tasks[i]
         state == promises[t.promise].state
         settings == promises[t.promise].value
         text == DocText(t)
         rest == RemoveAt(tasks, i)
     IN IF state = "rejected"
        THEN \* the await of getDocumentSettings throws
             /\ writeOk
             /\ tasks' = rest
             /\ promises' = Collect(promises, rest, documentSettings)
             /\ last' = Outcome(t, "rejected")
             /\ UNCHANGED tmpFile
        ELSE IF SkipsCompiler(t, text)
        THEN \* no document, or a blank one: return []
             /\ writeOk
             /\ tasks' = rest
             /\ promises' = Collect(promises, rest, documentSettings)
             /\ last' = [Outcome(t, "returned") EXCEPT !.text = text]
             /\ UNCHANGED tmpFile
        ELSE /\ tmpFile' = writeFileSync(tmpFile, text, writeOk)
             /\ IF state = "null" \/ ~writeOk
                THEN \* settings.executablePath throws inside the try, the
                     \* catch leaves stdout undefined, stdout.length throws
                     /\ tasks' = rest
                     /\ promises' = Collect(promises, rest, documentSettings)
                     /\ last' = [Outcome(t, "rejected") EXCEPT
                                   !.text = text, !.wrote = writeOk]
                ELSE LET ts == [tasks EXCEPT ![i] =
                                  [t EXCEPT !.pc = "exec", !.promise = 0,
                                            !.settings = settings,
                                            !.text = text,
                                            !.proc = "spawned"]]
                     IN /\ tasks' = ts
                        /\ promises' = Collect(promises, ts, documentSettings)
                        /\ last' = [Outcome(t, "spawned") EXCEPT
                                      !.text = text, !.wrote = writeOk,
                                      !.settings = settings]
  /\ UNCHANGED <<initialized, hasConfigurationCapability, globalSettings,
                 documentSettings, documents, content, published>>

\* The first handler whose settings promise is settled resumes: the rest of
\* validateTextDocument (server.ts 211-215) or of onDocumentFormatting
\* (server.ts 245-254) up to the await of exec inside runCompiler (server.ts
\* 125-139).  The write of the temp file and the spawn are one step.
Resume(writeOk) ==
  /\ MicrotaskPending
  /\ LET i == CHOOSE j \in 1..Len(tasks) :
                /\ Ready(tasks[j])
                /\ \A k \in 1..(j - 1) : ~Ready(tasks[k])
         t == tasks[i]
         state == promises[t.promise].state
         settings == promises[t.promise].value
         text == DocText(t)
         rest == RemoveAt(tasks, i)
     IN IF state = "rejected"
        THEN \* the await of getDocumentSettings throws
             /\ writeOk
             /\ tasks' = rest
             /\ promises' = Collect(promises, rest, documentSettings)
             /\ last' = Outcome(t, "rejected")
             /\ UNCHANGED tmpFile
        ELSE IF SkipsCompiler(t, text)
        THEN \* no document, or a blank one: return []
             /\ writeOk
             /\ tasks' = rest
             /\ promises' = Collect(promises, rest, documentSettings)
             /\ last' = [Outcome(t, "returned") EXCEPT !.text = text]
             /\ UNCHANGED tmpFile
        ELSE /\ tmpFile' = writeFileSync(tmpFile, text, writeOk)
             /\ IF state = "null"
                THEN \* settings.executablePath throws inside the try, the
                     \* catch leaves stdout undefined, stdout.length throws
                     /\ tasks' = rest
                     /\ promises' = Collect(promises, rest, documentSettings)
                     /\ last' = [Outcome(t, "rejected") EXCEPT
                                   !.text = text, !.wrote = writeOk]
                ELSE LET ts == [tasks EXCEPT ![i] =
                                  [t EXCEPT !.pc = "exec", !.promise = 0,
                                            !.settings = settings,
                                            !.text = text,
                                            !.proc = "spawned"]]
                     IN /\ tasks' = ts
                        /\ promises' = Collect(promises, ts, documentSettings)
                        /\ last' = [Outcome(t, "spawned") EXCEPT
                                      !.text = text, !.wrote = writeOk,
                                      !.settings = settings]
  /\ UNCHANGED <<initialized, hasConfigurationCapability, globalSettings,
                 documentSettings, documents, content, published>>

\* ProcRead of a process that is handed its own request's text, as it would
\* be with one temp file per invocation.
ProcRead_ownFile(i) ==
  /\ i \in 1..Len(tasks)
  /\ tasks[i].pc = "exec" /\ tasks[i].proc = "spawned"
  /\ tasks' = [tasks EXCEPT ![i] = [@ EXCEPT !.proc = "read",
                                             !.input = tasks[i].text]]
  /\ last' = NoLast
  /\ UNCHANGED <<initialized, hasConfigurationCapability, globalSettings,
                 documentSettings, promises, documents, content, tmpFile,
                 published>>

\* The compiler process opens and reads the temp file.
ProcRead(i) ==
  /\ i \in 1..Len(tasks)
  /\ tasks[i].pc = "exec" /\ tasks[i].proc = "spawned"
  /\ tasks' = [tasks EXCEPT ![i] = [@ EXCEPT !.proc = "read",
                                             !.input = tmpFile]]
  /\ last' = NoLast
  /\ UNCHANGED <<initialized, hasConfigurationCapability, globalSettings,
                 documentSettings, promises, documents, content, tmpFile,
                 published>>

\* ProcExit that drops the result of a validation pass whose text is no
\* longer the text of the document (last-request-wins).
ProcExit_lastRequestWins(i, res) ==
  /\ ~MicrotaskPending
  /\ i \in 1..Len(tasks)
  /\ tasks[i].pc = "exec"
  /\ LET t == tasks[i]
         stdout == runCompilerResult(res)
         done == [Outcome(t, IF t.kind = "validate" THEN "published"
                             ELSE "returned")
                    EXCEPT !.how = res.how, !.stdout = res.stdout,
                           !.stderr = res.stderr, !.result = stdout,
                           !.settings = t.settings,
                           !.text = t.text, !.read = (t.proc = "read"),
                           !.input = t.input, !.doc = DocText(t)]
     IN IF t.kind = "validate" /\ t.text # DocText(t)
        THEN /\ last' = Outcome(t, "dropped")
             /\ UNCHANGED published
        ELSE IF t.kind = "validate"
        THEN /\ published' =
                  [published EXCEPT ![t.uri] =
                     [sent |-> TRUE, diagnostics |-> Diagnostics(stdout)]]
             /\ last' = [done EXCEPT !.diagnostics = Diagnostics(stdout),
                                     !.before = published[t.uri]]
        ELSE /\ last' = [done EXCEPT !.edits =
                                       Edits(stdout, lineCount(DocText(t)))]
             /\ UNCHANGED published
  /\ tasks' = RemoveAt(tasks, i)
  /\ UNCHANGED <<initialized, hasConfigurationCapability, globalSettings,
                 documentSettings, promises, documents, content, tmpFile>>

\* ProcExit that ends the edit at the line count of the text that was sent
\* to the formatter.
ProcExit_capturedLineCount(i, res) ==
  /\ ~MicrotaskPending
  /\ i \in 1..Len(tasks)
  /\ tasks[i].pc = "exec"
  /\ LET t == tasks[i]
         stdout == runCompilerResult(res)
         done == [Outcome(t, IF t.kind = "validate" THEN "published"
                             ELSE "returned")
                    EXCEPT !.how = res.how, !.stdout = res.stdout,
                           !.stderr = res.stderr, !.result = stdout,
                           !.settings = t.settings,
                           !.text = t.text, !.read = (t.proc = "read"),
                           !.input = t.input, !.doc = DocText(t)]
     IN IF t.kind = "validate"
        THEN /\ published' =
                  [published EXCEPT ![t.uri] =
                     [sent |-> TRUE, diagnostics |-> Diagnostics(stdout)]]
             /\ last' = [done EXCEPT !.diagnostics = Diagnostics(stdout),
                                     !.before = published[t.uri]]
        ELSE /\ last' = [done EXCEPT !.edits =
                                       Edits(stdout, lineCount(t.text))]
             /\ UNCHANGED published
  /\ tasks' = RemoveAt(tasks, i)
  /\ UNCHANGED <<initialized, hasConfigurationCapability, globalSettings,
                 documentSettings, promises, documents, content, tmpFile>>

\* The compiler process ends (or is killed at the timeout): runCompiler
\* returns (server.ts 140-146) and the handler runs to its end, publishing
\* diagnostics (server.ts 216-234) or returning edits (server.ts 255-269).
ProcExit(i, res) ==
  /\ ~MicrotaskPending
  /\ i \in 1..Len(tasks)
  /\ tasks[i].pc = "exec"
  /\ LET t == tasks[i]
         stdout == runCompilerResult(res)
         done == [Outcome(t, IF t.kind = "validate" THEN "published"
                             ELSE "returned")
                    EXCEPT !.how = res.how, !.stdout = res.stdout,
                           !.stderr = res.stderr, !.result = stdout,
                           !.settings = t.settings,
                           !.text = t.text, !.read = (t.proc = "read"),
                           !.input = t.input, !.doc = DocText(t)]
     IN IF t.kind = "validate"
        THEN /\ published' =
                  [published EXCEPT ![t.uri] =
                     [sent |-> TRUE, diagnostics |-> Diagnostics(stdout)]]
             /\ last' = [done EXCEPT !.diagnostics = Diagnostics(stdout),
                                     !.before = published[t.uri]]
        ELSE /\ last' = [done EXCEPT !.edits =
                                       Edits(stdout, lineCount(DocText(t)))]
             /\ UNCHANGED published
  /\ tasks' = RemoveAt(tasks, i)
  /\ UNCHANGED <<initialized, hasConfigurationCapability, globalSettings,
                 documentSettings, promises, documents, content, tmpFile>>

\* Some compiler process ends, with one of the given results.
CompilerEnds(results) ==
  /\ tasks # <<>>
  /\ \E i \in 1..Len(tasks), res \in results : ProcExit(i, res)

(***************************************************************************)
(* What the compiler process can end with.                                 *)
(***************************************************************************)
CRLF == <<"\r", "\n">>

ExecResult(how, out, err) == [how |-> how, stdout |-> out, stderr |-> err]

\* The results drawn in Spec: nothing at all; blank standard output; a
\* failure that reports a position on standard error while standard output
\* holds something else; a timeout with a single character captured.
MainResults ==
  { ExecResult("success", <<>>, <<>>),
    ExecResult("success", <<" ">> \o CRLF, <<"w">> \o CRLF),
    ExecResult("failure",
               <<"o", "k">> \o CRLF,
               <<"[", "2", ":", "1", "]", ":", "m">> \o CRLF),
    ExecResult("timeout", <<"o", "k">> \o CRLF, <<"e">>) }

\* The documents of Spec: a blank one and one of two lines.
MainTexts == { <<" ">>, <<"a", "\n", "b">> }

(***************************************************************************)
(* The next-state relation, for an environment E that gives the sets the   *)
(* client's and the compiler's choices are drawn from.                     *)
(***************************************************************************)
Step(E) ==
  \/ \E cap \in E.caps : Initialize(cap)
  \/ \E uri \in E.uris, text \in E.texts : DidOpen(uri, text)
  \/ \E uri \in E.uris, text \in E.texts : DidChange(uri, text)
  \/ \E uri \in E.uris : DidClose(uri)
  \/ \E present \in BOOLEAN, settings \in E.values :
       DidChangeConfiguration(present, settings)
  \/ \E uri \in E.uris : DocumentFormatting(uri)
  \/ \E p \in PromiseIds, answer \in E.answers, value \in E.values :
       ConfigResponse(p, answer, value)
  \/ \E writeOk \in E.writes : Resume(writeOk)
  \/ \E i \in 1..MaxTasks : ProcRead(i)
  \/ CompilerEnds(E.results)

\* Spec: one document, every choice of the client and of the compiler.
MainEnv ==
  [caps |-> BOOLEAN, uris |-> {"u1"}, texts |-> MainTexts,
   answers |-> ConfigAnswers, values |-> SettingsValues,
   writes |-> BOOLEAN, results |-> MainResults]

Next == Step(MainEnv)

Spec == Init /\ [][Next]_vars

(***************************************************************************)
(* SpecPasses: the same handlers in a smaller environment, so that a third *)
(* handler in flight stays within reach: one document text, configuration  *)
(* requests that are answered with a settings object, writes that succeed, *)
(* a blank result on standard output and a failure with one position.      *)
(***************************************************************************)
PassesResults ==
  { ExecResult("success", <<" ">> \o CRLF, <<"w">> \o CRLF),
    ExecResult("failure",
               <<"o", "k">> \o CRLF,
               <<"[", "2", ":", "1", "]", ":", "m">> \o CRLF) }

PassesEnv ==
  [caps |-> BOOLEAN, uris |-> {"u1"}, texts |-> {<<"a">>},
   answers |-> {"object"}, values |-> SettingsValues,
   writes |-> {TRUE}, results |-> PassesResults]

NextPasses == Step(PassesEnv)

SpecPasses == Init /\ [][NextPasses]_vars

(***************************************************************************)
(* SpecGlobal: a client without the configuration capability and two       *)
(* documents; one document text, writes that succeed and a compiler that   *)
(* fails at any moment after it was spawned.  No workspace/configuration   *)
(* request is ever sent, so none is answered.                              *)
(***************************************************************************)
GlobalResults ==
  { ExecResult("failure",
               <<"o", "k">> \o CRLF,
               <<"[", "2", ":", "1", "]", ":", "m">> \o CRLF) }

NextGlobal ==
  \/ Initialize(FALSE)
  \/ \E uri \in URIs : DidOpen(uri, <<"a">>)
  \/ \E uri \in URIs : DidChange(uri, <<"a">>)
  \/ \E uri \in URIs : DidClose(uri)
  \/ \E present \in BOOLEAN, settings \in SettingsValues :
       DidChangeConfiguration(present, settings)
  \/ \E uri \in URIs : DocumentFormatting(uri)
  \/ Resume(TRUE)
  \/ CompilerEnds(GlobalResults)

SpecGlobal == Init /\ [][NextGlobal]_vars

(***************************************************************************)
(* SpecRace: overlapping handlers of one document whose text changes       *)
(* between one line and two, for a client without the configuration        *)
(* capability.  Every write of the temp file succeeds, so that the file    *)
(* holds a request's own text at the moment its process is spawned.        *)
(***************************************************************************)
RaceTexts == { <<"a">>, <<"a", "\n", "b">> }

NextRace ==
  \/ Initialize(FALSE)
  \/ \E text \in RaceTexts : DidOpen("u1", text)
  \/ \E text \in RaceTexts : DidChange("u1", text)
  \/ DidClose("u1")
  \/ DidChangeConfiguration(FALSE, defaultSettings)
  \/ DocumentFormatting("u1")
  \/ Resume(TRUE)
  \/ \E i \in 1..MaxTasks : ProcRead(i)
  \/ CompilerEnds(PassesResults)

SpecRace == Init /\ [][NextRace]_vars

(***************************************************************************)
(* SpecStale: writes of the temp file may fail, and the client sends one   *)
(* request at a time, waiting for its result.  No two handlers overlap, so *)
(* a process that reads a text other than its request's reads what an      *)
(* earlier invocation left in the file.                                    *)
(***************************************************************************)
Idle == tasks = <<>>

NextStale ==
  \/ Initialize(FALSE)
  \/ Idle /\ \E text \in RaceTexts : DidOpen("u1", text)
  \/ Idle /\ \E text \in RaceTexts : DidChange("u1", text)
  \/ DidClose("u1")
  \/ Idle /\ DidChangeConfiguration(FALSE, defaultSettings)
  \/ Idle /\ DocumentFormatting("u1")
  \/ \E writeOk \in BOOLEAN : Resume(writeOk)
  \/ \E i \in 1..MaxTasks : ProcRead(i)
  \/ CompilerEnds(PassesResults)

SpecStale == Init /\ [][NextStale]_vars

(***************************************************************************)
(* SpecWrites: the overlapping handlers of SpecRace with writes of the     *)
(* temp file that may fail, and one compiler result.                       *)
(***************************************************************************)
NextWrites ==
  \/ Initialize(FALSE)
  \/ \E text \in RaceTexts : DidOpen("u1", text)
  \/ \E text \in RaceTexts : DidChange("u1", text)
  \/ DidClose("u1")
  \/ DidChangeConfiguration(FALSE, defaultSettings)
  \/ DocumentFormatting("u1")
  \/ \E writeOk \in BOOLEAN : Resume(writeOk)
  \/ \E i \in 1..MaxTasks : ProcRead(i)
  \/ CompilerEnds(GlobalResults)

SpecWrites == Init /\ [][NextWrites]_vars

(***************************************************************************)
(* SpecScoped: a client with the configuration capability that opens and   *)
(* closes two documents, changes its configuration and answers every       *)
(* workspace/configuration request with one of two settings objects.  The  *)
(* compiler fails at any moment after it was spawned.                      *)
(***************************************************************************)
NextScoped ==
  \/ Initialize(TRUE)
  \/ \E uri \in URIs : DidOpen(uri, <<"a">>)
  \/ \E uri \in URIs : DidClose(uri)
  \/ DidChangeConfiguration(FALSE, defaultSettings)
  \/ \E p \in PromiseIds, value \in SettingsValues :
       ConfigResponse(p, "object", value)
  \/ Resume(TRUE)
  \/ CompilerEnds(GlobalResults)

SpecScoped == Init /\ [][NextScoped]_vars

(***************************************************************************)
(* SpecParse: one handler, from the moment its settings are there to its   *)
(* end, over every document text and a large family of compiler outputs.   *)
(***************************************************************************)
\* The pieces compiler output is made of: three position tokens, the colon,
\* a letter and a blank.
Fragments ==
  { <<"[", "1", ":", "2", "]">>,
    <<"[", "2", ":", "1", "]">>,
    <<"[", "1", "0", ":", "3", "]">>,
    <<":">>, <<"e">>, <<" ">> }

RECURSIVE Bodies(_)
Bodies(n) ==
  IF n = 0 THEN {<<>>}
  ELSE Bodies(n - 1) \cup {b \o f : b \in Bodies(n - 1), f \in Fragments}

\* What the process leaves on the captured channel: up to MaxFrags fragments,
\* with or without the line end the trim of runCompiler expects.
CapturedOutputs == {b \o e : b \in Bodies(MaxFrags), e \in {<<>>, CRLF}}

\* The other channel holds a text the handler must not look at.
ParseResults ==
  {ExecResult("success", c, <<"w">> \o CRLF) : c \in CapturedOutputs}
    \cup {ExecResult(how, <<"o", "k">> \o CRLF, c) :
            how \in {"failure", "timeout"}, c \in CapturedOutputs}

\* A client without the configuration capability has opened u1, and a
\* validation pass or a formatting request for it has just started.  Earlier
\* passes, whose write of the temp file failed, have published nothing yet,
\* an empty set or one diagnostic for u1; a formatting request starts alone
\* only after the pass of didOpen has published.
InitParse ==
  /\ initialized = TRUE
  /\ hasConfigurationCapability = FALSE
  /\ globalSettings = defaultSettings
  /\ documentSettings = [u \in URIs |-> 0]
  /\ promises = [p \in PromiseIds |->
                   IF p = 1 THEN [state |-> "object", value |-> defaultSettings]
                   ELSE PendingPromise]
  /\ documents = <<"u1">>
  /\ content \in {[u \in URIs |-> IF u = "u1" THEN text ELSE <<>>] :
                    text \in Texts}
  /\ tmpFile = <<>>
  /\ \E kind \in {"validate", "format"},
        pub \in {NotSent,
                 [sent |-> TRUE, diagnostics |-> <<>>],
                 [sent |-> TRUE, diagnostics |-> Diagnostics(<<"e">>)]} :
       /\ kind = "format" => pub.sent
       /\ tasks = << [kind |-> kind, uri |-> "u1", docRef |-> "live",
                      doc |-> <<>>, pc |-> "settings", promise |-> 1,
                      settings |-> defaultSettings, text |-> <<>>,
                      proc |-> "none", input |-> <<>>] >>
       /\ published = [u \in URIs |-> IF u = "u1" THEN pub ELSE NotSent]
  /\ last = NoLast

NextParse ==
  \/ Resume(TRUE)
  \/ ProcRead(1)
  \/ CompilerEnds(ParseResults)

SpecParse == InitParse /\ [][NextParse]_vars

(***************************************************************************)
(* Vocabulary of the properties, stated on the strings themselves.         *)
(***************************************************************************)
\* Empty, or white space only.
Blank(s) == \A i \in 1..Len(s) : s[i] \in {" ", "\t", "\n", "\r"}

AllDigits(s, a, b) ==
  \A n \in a..b : s[n] \in {"0", "1", "2", "3", "4", "5", "6", "7", "8", "9"}

\* The [line:col] tokens of s: <<i, k, j>> with the opening bracket at i, the
\* colon at k and the closing bracket at j, and digits in between.
TokensOf(s) ==
  {tok \in {i \in 1..Len(s) : s[i] = "["}
             \X {k \in 1..Len(s) : s[k] = ":"}
             \X {j \in 1..Len(s) : s[j] = "]"} :
     /\ tok[1] + 1 < tok[2] /\ tok[2] + 1 < tok[3]
     /\ AllDigits(s, tok[1] + 1, tok[2] - 1)
     /\ AllDigits(s, tok[2] + 1, tok[3] - 1)}

\* The number written in decimal at s[a..b].
RECURSIVE Decimal(_, _, _)
Decimal(s, a, b) ==
  IF a > b THEN 0 ELSE 10 * Decimal(s, a, b - 1) + DigitVal(s[b])

\* The 0-based position a token names.
PositionOf(s, tok) ==
  [line |-> Decimal(s, tok[1] + 1, tok[2] - 1) - 1,
   character |-> Decimal(s, tok[2] + 1, tok[3] - 1) - 1]

\* Index of the last colon of s, 0 if s has none.
LastColon(s) ==
  IF \E k \in 1..Len(s) : s[k] = ":"
  THEN CHOOSE k \in 1..Len(s) :
         s[k] = ":" /\ \A n \in (k + 1)..Len(s) : s[n] # ":"
  ELSE 0

\* The number of lines of a text whose line ends are "\n".
LinesOf(text) == 1 + Cardinality({i \in 1..Len(text) : text[i] = "\n"})

\* The step just taken ended a validation pass by publishing diagnostics.
Published == last.kind = "validate" /\ last.outcome = "published"

\* The step just taken ended a formatting request by returning edits.
Returned == last.kind = "format" /\ last.outcome = "returned"

\* The step just taken ended a formatting request after the formatter ran.
Formatted == Returned /\ ~Blank(last.text)

(***************************************************************************)
(* C1: a validation pass whose compiler-invoker result is empty or white   *)
(* space only publishes the empty diagnostics set for the document's URI,  *)
(* and that set replaces the one published before.                         *)
(***************************************************************************)
C1_BlankOutputPublishesEmpty ==
  (Published /\ Blank(last.result)) =>
    /\ last.diagnostics = <<>>
    /\ published[last.uri] = [sent |-> TRUE, diagnostics |-> <<>>]

\* A white-space-only result clears a diagnostic published before.
C1_Witness ==
  /\ Published /\ Blank(last.result) /\ last.result # <<>>
  /\ last.before.sent /\ last.before.diagnostics # <<>>
  /\ published[last.uri].diagnostics = <<>>

(***************************************************************************)
(* C2: every diagnostics set published holds at most one diagnostic; a     *)
(* pass whose analysis output is not blank publishes exactly one, with     *)
(* severity Error and source "ashlang", whatever maxNumberOfProblems is.   *)
(***************************************************************************)
C2_AtMostOneDiagnostic ==
  /\ \A u \in URIs :
       /\ Len(published[u].diagnostics) <= 1
       /\ \A i \in 1..Len(published[u].diagnostics) :
            /\ published[u].diagnostics[i].severity = "Error"
            /\ published[u].diagnostics[i].source = "ashlang"
  /\ Published =>
       /\ published[last.uri].diagnostics = last.diagnostics
       /\ ~Blank(last.result) => Len(last.diagnostics) = 1

\* One diagnostic is published by a pass that ran with maxNumberOfProblems 0.
C2_Witness ==
  /\ Published /\ ~Blank(last.result)
  /\ last.settings.maxNumberOfProblems = 0
  /\ Len(published[last.uri].diagnostics) = 1

(***************************************************************************)
(* C3: when the analysis output holds exactly one [line:col] token, the    *)
(* diagnostic's start and end are both (line - 1, col - 1).                *)
(***************************************************************************)
C3_OneTokenZeroWidth ==
  (Published /\ Cardinality(TokensOf(last.result)) = 1) =>
    LET tok == CHOOSE x \in TokensOf(last.result) : TRUE
    IN /\ Len(last.diagnostics) = 1
       /\ last.diagnostics[1].range.start = PositionOf(last.result, tok)
       /\ last.diagnostics[1].range.end = PositionOf(last.result, tok)

\* The one token is [10:3], in the middle of other text.
C3_Witness ==
  /\ Published /\ Cardinality(TokensOf(last.result)) = 1
  /\ last.result[1] = "e"
  /\ last.diagnostics[1].range.start = [line |-> 9, character |-> 2]
  /\ last.diagnostics[1].range.end = [line |-> 9, character |-> 2]

(***************************************************************************)
(* C4: when the analysis output holds two [line:col] tokens, the start is  *)
(* the first token and the end the second, each decremented by one, also   *)
(* when the end then lies before the start.                                *)
(***************************************************************************)
C4_TwoTokensInOrderOfAppearance ==
  (Published /\ Cardinality(TokensOf(last.result)) = 2) =>
    LET first == CHOOSE x \in TokensOf(last.result) :
                   \A y \in TokensOf(last.result) : x[1] <= y[1]
        second == CHOOSE y \in TokensOf(last.result) : y # first
    IN /\ Len(last.diagnostics) = 1
       /\ last.diagnostics[1].range.start = PositionOf(last.result, first)
       /\ last.diagnostics[1].range.end = PositionOf(last.result, second)

\* [2:1] then [1:2]: the range runs from (1,0) back to (0,1).
C4_Witness ==
  /\ Published /\ Cardinality(TokensOf(last.result)) = 2
  /\ last.diagnostics[1].range.start = [line |-> 1, character |-> 0]
  /\ last.diagnostics[1].range.end = [line |-> 0, character |-> 1]

(***************************************************************************)
(* C5: a non-blank analysis output without any [line:col] token still      *)
(* yields one published diagnostic, from (0,0) to (0,0).                   *)
(***************************************************************************)
C5_NoTokenDefaultsToOrigin ==
  (Published /\ ~Blank(last.result) /\ TokensOf(last.result) = {}) =>
    /\ Len(last.diagnostics) = 1
    /\ published[last.uri].diagnostics = last.diagnostics
    /\ last.diagnostics[1].range.start = [line |-> 0, character |-> 0]
    /\ last.diagnostics[1].range.end = [line |-> 0, character |-> 0]

\* The output ends in a token that lost its closing bracket: "[1:2".
C5_Witness ==
  /\ Published /\ TokensOf(last.result) = {}
  /\ Len(last.result) >= 4
  /\ SubSeq(last.result, Len(last.result) - 3, Len(last.result))
       = <<"[", "1", ":", "2">>
  /\ Len(published[last.uri].diagnostics) = 1
  /\ last.diagnostics[1].range.start = [line |-> 0, character |-> 0]

(***************************************************************************)
(* C6: the message of the diagnostic is the text after the last ':' of the *)
(* analysis output (the whole output when it has no ':'), also when that   *)
(* ':' is the one inside a [line:col] token.                               *)
(***************************************************************************)
C6_MessageAfterLastColon ==
  (Published /\ ~Blank(last.result)) =>
    /\ Len(last.diagnostics) = 1
    /\ last.diagnostics[1].message =
         SubSeq(last.result, LastColon(last.result) + 1, Len(last.result))

\* The last ':' is the one of the token [1:2]: the message is "2]e".
C6_Witness ==
  /\ Published
  /\ \E tok \in TokensOf(last.result) : tok[2] = LastColon(last.result)
  /\ last.diagnostics[1].message = <<"2", "]", "e">>

(***************************************************************************)
(* C7: a formatting request for an open document whose text is not blank   *)
(* returns one edit from (0,0) to (lineCount,0) whose newText is the       *)
(* output returned by the compiler invoker when that output is not blank,  *)
(* and no edit when it is blank.                                           *)
(***************************************************************************)
C7_OneFullDocumentEdit ==
  Formatted =>
    IF Blank(last.result) THEN last.edits = <<>>
    ELSE last.edits =
           << [range |-> [start |-> [line |-> 0, character |-> 0],
                          end |-> [line |-> LinesOf(last.doc),
                                   character |-> 0]],
               newText |-> last.result] >>

\* A document of two lines is replaced by a formatter output of one token.
C7_Witness ==
  /\ Formatted /\ LinesOf(last.doc) = 2
  /\ Len(last.edits) = 1
  /\ last.edits[1].range.end = [line |-> 2, character |-> 0]
  /\ last.edits[1].newText = <<"[", "1", ":", "2", "]">>

(***************************************************************************)
(* C8: a formatting request for a document whose text is empty or white    *)
(* space only returns no edits, and the formatter is not run for it.       *)
(***************************************************************************)
C8_BlankDocumentNoEdits ==
  (last.kind = "format" /\ last.outcome # "none" /\ Blank(last.text)) =>
    /\ last.outcome = "returned"
    /\ last.edits = <<>>

\* The request for a document that holds one blank has returned.
C8_Witness ==
  /\ Returned /\ last.text = <<" ">> /\ last.edits = <<>>
  /\ content[last.uri] = <<" ">>

(***************************************************************************)
(* C9: runCompiler returns standard output when the process succeeds and   *)
(* standard error when it exits non-zero or is killed at the timeout, less *)
(* the last two characters; two characters or fewer give the empty string. *)
(* Whichever channel the string came from, it alone decides whether a      *)
(* diagnostic is published or an edit returned.                            *)
(***************************************************************************)
C9_CapturedChannelLessTwo ==
  (Published \/ Formatted) =>
    LET captured == IF last.how = "success" THEN last.stdout ELSE last.stderr
    IN /\ IF Len(captured) <= 2 THEN last.result = <<>>
          ELSE /\ Len(last.result) = Len(captured) - 2
               /\ \A i \in 1..Len(last.result) : last.result[i] = captured[i]
       /\ Published => (last.diagnostics = <<>> <=> Blank(last.result))
       /\ Formatted => (last.edits = <<>> <=> Blank(last.result))

\* A timeout with one character on standard error: the empty string.
C9_Witness ==
  /\ Published /\ last.how = "timeout"
  /\ Len(last.stderr) = 1 /\ last.stdout # <<>>
  /\ last.result = <<>> /\ last.diagnostics = <<>>

(***************************************************************************)
(* C10: every validation pass and formatting request ends by publishing a  *)
(* diagnostics set or by returning an edit list; none ends in an error.    *)
(***************************************************************************)
C10_NoHandlerFails == last.outcome # "rejected"

(***************************************************************************)
(* C11: every key of the per-document settings cache is the URI of a       *)
(* document that is open, whatever sequence of open, change, close,        *)
(* configuration-change and formatting events the server has handled.      *)
(***************************************************************************)
C11_CacheKeysAreOpen ==
  \A u \in URIs : documentSettings[u] # 0 => IsOpen(u)

(***************************************************************************)
(* C12: for a client without the configuration capability the settings     *)
(* cache stays empty and every handler is given the global settings object *)
(* in force when it starts, the same for every document; that object is    *)
(* replaced only by a configuration-change notification, by the section    *)
(* the notification carries or else by the defaults.                       *)
(***************************************************************************)
C12_GlobalSettingsInForce ==
  /\ [](~hasConfigurationCapability =>
          /\ \A u \in URIs : documentSettings[u] = 0
          /\ \A i \in 1..Len(tasks) :
               tasks[i].pc = "settings" =>
                 promises[tasks[i].promise] =
                   [state |-> "object", value |-> globalSettings]
          /\ last.outcome = "spawned" => last.settings = globalSettings)
  /\ [][globalSettings' # globalSettings =>
          /\ ~hasConfigurationCapability
          /\ \E present \in BOOLEAN, settings \in SettingsValues :
               /\ DidChangeConfiguration(present, settings)
               /\ globalSettings' = IF present THEN settings
                                    ELSE defaultSettings]_vars

\* After a notification that carried a section, a pass for u2 is handed the
\* user's settings while a pass for u1 runs with them as well.
C12_Witness ==
  /\ initialized /\ ~hasConfigurationCapability
  /\ globalSettings = userSettings
  /\ last.outcome = "spawned" /\ last.uri = "u2"
  /\ last.settings = userSettings
  /\ \E i \in 1..Len(tasks) :
       /\ tasks[i].uri = "u1" /\ tasks[i].pc = "exec"
       /\ tasks[i].settings = userSettings
  /\ \A u \in URIs : documentSettings[u] = 0

\* The claim as stated: the settings used are the fixed defaults.
C12_AlwaysDefaults ==
  ~hasConfigurationCapability =>
    /\ \A u \in URIs : documentSettings[u] = 0
    /\ last.outcome \in {"spawned", "published", "returned"} =>
         last.settings = defaultSettings

(***************************************************************************)
(* C13: nothing locks the shared temp file.  A compiler process analyses   *)
(* what the file holds at the moment it reads it, whichever handler wrote  *)
(* it last, and a handler that resumes overwrites the file also while      *)
(* another handler's process has been spawned and has not read it yet.     *)
(***************************************************************************)
C13_ReadsWhatTheFileHolds ==
  [][\A i \in 1..Len(tasks) :
       /\ (/\ tasks[i].pc = "exec" /\ tasks[i].proc = "spawned"
           /\ Len(tasks') = Len(tasks) /\ tasks'[i].proc = "read")
            => tasks'[i].input = tmpFile
       /\ (/\ tasks[i].pc = "exec" /\ tasks[i].proc = "spawned"
           /\ last'.outcome = "spawned")
            => /\ tmpFile' = last'.text
               /\ tasks'[i] = tasks[i]]_vars

\* A's write succeeded and A's process was spawned on A's text, yet what it
\* read, and what A's result was computed from, is the text of B, whose
\* process is still running.
C13_Witness ==
  /\ last.outcome \in {"published", "returned"}
  /\ last.read /\ last.text # <<>> /\ last.input # last.text
  /\ \E i \in 1..Len(tasks) :
       tasks[i].pc = "exec" /\ tasks[i].text = last.input

(***************************************************************************)
(* C14: a validation pass in flight is never aborted: a handler that       *)
(* starts leaves the handlers in flight as they are, and a handler leaves  *)
(* only by publishing or returning its own result.  The diagnostics a pass *)
(* publishes become the published set of its document, also when the pass  *)
(* ran on a text the document no longer has.                               *)
(***************************************************************************)
C14_LastResponseWins ==
  /\ [](Published =>
          published[last.uri] =
            [sent |-> TRUE, diagnostics |-> last.diagnostics])
  /\ [][/\ Len(tasks') > Len(tasks) => SubSeq(tasks', 1, Len(tasks)) = tasks
        /\ Len(tasks') < Len(tasks) =>
             /\ Len(tasks') = Len(tasks) - 1
             /\ last'.outcome \in {"published", "returned"}]_vars

\* The pass that just published ran on a text the document has lost to a
\* later change; the pass of that change is no longer in flight, so it has
\* published before, and what it published has been replaced.
C14_Witness ==
  /\ Published /\ last.text # last.doc /\ content[last.uri] = last.doc
  /\ tasks = <<>>
  /\ last.before.sent /\ last.before.diagnostics # last.diagnostics
  /\ published[last.uri].diagnostics = last.diagnostics

(***************************************************************************)
(* C15: a write of the temp file that fails is not propagated.  The        *)
(* handler still spawns the compiler, the file holds what it held before,  *)
(* no handler ends in an error, and the output of the process is parsed    *)
(* and published or returned as after a write that succeeded.              *)
(***************************************************************************)
C15_FailedWriteNotPropagated ==
  /\ [](/\ last.outcome \in {"none", "spawned", "published", "returned"}
        /\ Published =>
             /\ published[last.uri].diagnostics = last.diagnostics
             /\ last.diagnostics = <<>> <=> Blank(last.result)
        /\ Formatted => (last.edits = <<>> <=> Blank(last.result)))
  /\ [][(MicrotaskPending /\ (last'.kind = "validate" \/
                                (last'.kind = "format" /\ ~Blank(last'.text))))
         =>
          /\ last'.outcome = "spawned"
          /\ \E i \in 1..Len(tasks') :
               /\ tasks'[i].pc = "exec" /\ tasks'[i].proc = "spawned"
               /\ tasks'[i].text = last'.text
          /\ ~last'.wrote => tmpFile' = tmpFile]_vars

\* The write of a pass on the one-line text failed; its process read the
\* two lines an earlier invocation had written, and the diagnostic computed
\* from them is published.
C15_Witness ==
  /\ Published /\ last.read
  /\ last.text = <<"a">> /\ last.input = <<"a", "\n", "b">>
  /\ tmpFile = last.input
  /\ Len(last.diagnostics) = 1
  /\ published[last.uri].diagnostics = last.diagnostics

(***************************************************************************)
(* C16: a configuration-change notification from a client with the         *)
(* configuration capability leaves the handlers in flight as they are and  *)
(* starts one validation pass per open document, in the order the          *)
(* documents were opened.  Each new pass waits for a configuration query   *)
(* of its own that is not answered yet, that no earlier handler waits for  *)
(* and that is the cache entry of its document; no other entry is left in  *)
(* the cache.  A pass that holds its settings keeps them to its end.       *)
(***************************************************************************)
C16_ClearedThenRevalidated ==
  [][/\ (hasConfigurationCapability /\ last'.kind = "configuration") =>
          /\ Len(tasks') = Len(tasks) + Len(documents)
          /\ SubSeq(tasks', 1, Len(tasks)) = tasks
          /\ \A k \in 1..Len(documents) :
               LET t == tasks'[Len(tasks) + k]
               IN /\ t.kind = "validate" /\ t.uri = documents[k]
                  /\ t.pc = "settings"
                  /\ documentSettings'[t.uri] = t.promise
                  /\ promises'[t.promise].state = "pending"
                  /\ \A j \in 1..Len(tasks') :
                       (j # Len(tasks) + k /\ tasks'[j].pc = "settings")
                         => tasks'[j].promise # t.promise
          /\ \A u \in URIs : ~IsOpen(u) => documentSettings'[u] = 0
     /\ \A i \in 1..Len(tasks) :
          (tasks[i].pc = "exec" /\ Len(tasks') >= Len(tasks))
            => /\ tasks'[i].pc = "exec"
               /\ tasks'[i].settings = tasks[i].settings
     /\ (Len(tasks') < Len(tasks) /\ last'.outcome = "published") =>
          \E i \in 1..Len(tasks) :
            /\ tasks[i].pc = "exec" /\ tasks' = RemoveAt(tasks, i)
            /\ last'.settings = tasks[i].settings]_vars

\* The notification has just been handled while a pass of u1 runs with the
\* user's settings: the cache holds a new query for u1, not answered yet,
\* and a new pass of u1 waits for it.
C16_Witness ==
  /\ hasConfigurationCapability /\ last.kind = "configuration"
  /\ Len(tasks) = 2
  /\ tasks[1].uri = "u1" /\ tasks[1].pc = "exec"
  /\ tasks[1].settings = userSettings
  /\ tasks[2].uri = "u1" /\ tasks[2].pc = "settings"
  /\ documentSettings["u1"] = tasks[2].promise
  /\ promises[tasks[2].promise].state = "pending"

(***************************************************************************)
(* C17: the write of the temp file and the spawn of the compiler are one   *)
(* step.  In the state in which a process has just been spawned the file   *)
(* holds the text of its request whenever that request's write succeeded,  *)
(* whatever other handlers are in flight; and the file changes in no step  *)
(* but one in which a handler writes it and spawns or fails at once.       *)
(***************************************************************************)
C17_WriteAndSpawnAreOneStep ==
  /\ []((last.outcome = "spawned" /\ last.wrote) =>
          /\ tmpFile = last.text
          /\ \E i \in 1..Len(tasks) :
               /\ tasks[i].pc = "exec" /\ tasks[i].proc = "spawned"
               /\ tasks[i].text = tmpFile)
  /\ [][tmpFile' # tmpFile =>
          /\ last'.outcome \in {"spawned", "rejected"}
          /\ last'.wrote /\ tmpFile' = last'.text]_vars

\* A request is spawned on its own two lines while the process of an earlier
\* request, spawned on one line, has not read the file yet.
C17_Witness ==
  /\ last.outcome = "spawned" /\ last.wrote
  /\ last.text = <<"a", "\n", "b">> /\ tmpFile = last.text
  /\ Len(tasks) = 2
  /\ tasks[1].pc = "exec" /\ tasks[1].proc = "spawned"
  /\ tasks[1].text = <<"a">>
  /\ tasks[2].pc = "exec" /\ tasks[2].proc = "spawned"
  /\ tasks[2].text = last.text

(***************************************************************************)
(* C18: the text a formatting request hands to the formatter is the text   *)
(* of the document when the request resumes, before the compiler runs; the *)
(* edit it returns carries the formatter's output as newText and ends at   *)
(* the line count that the document object the request holds has when the  *)
(* compiler has ended, also when the document was changed in between.      *)
(***************************************************************************)
C18_TextBeforeLineCountAfter ==
  /\ (last.kind = "format" /\ last.outcome = "spawned") =>
       /\ last.text = content[last.uri]
       /\ last.wrote => tmpFile = last.text
  /\ (Formatted /\ ~Blank(last.result)) =>
       /\ Len(last.edits) = 1
       /\ last.edits[1].newText = last.result
       /\ last.edits[1].range.end =
            [line |-> LinesOf(last.doc), character |-> 0]

\* The formatter read and formatted the two lines the document had; the
\* document has one line when it ends, and the edit ends at line 1.
C18_Witness ==
  /\ Formatted /\ Len(last.edits) = 1
  /\ last.text = <<"a", "\n", "b">> /\ last.read /\ last.input = last.text
  /\ last.doc = <<"a">> /\ content[last.uri] = <<"a">>
  /\ last.edits[1].range.end = [line |-> 1, character |-> 0]
  /\ last.edits[1].newText = last.result

(***************************************************************************)
(* C19: when the analysis output holds three or more [line:col] tokens,    *)
(* the diagnostic's start and end are both the position of the first       *)
(* token, decremented by one; the other tokens are ignored.                *)
(***************************************************************************)
C19_ThreeTokensZeroWidthAtFirst ==
  (Published /\ Cardinality(TokensOf(last.result)) >= 3) =>
    LET first == CHOOSE x \in TokensOf(last.result) :
                   \A y \in TokensOf(last.result) : x[1] <= y[1]
    IN /\ Len(last.diagnostics) = 1
       /\ last.diagnostics[1].range.start = PositionOf(last.result, first)
       /\ last.diagnostics[1].range.end = PositionOf(last.result, first)

\* [2:1][1:2][10:3]: the range is (1,0)-(1,0).
C19_Witness ==
  /\ Published /\ Cardinality(TokensOf(last.result)) = 3
  /\ SubSeq(last.result, 1, 10) =
       <<"[", "2", ":", "1", "]", "[", "1", ":", "2", "]">>
  /\ last.diagnostics[1].range.start = [line |-> 1, character |-> 0]
  /\ last.diagnostics[1].range.end = [line |-> 1, character |-> 0]

====
